---- MODULE Spec2Model ----
(***************************************************************************)
(* Model of fetch_top_traders.py: the leaderboard fetch, the per-window    *)
(* performance extraction, the top-N ranking, the position fetch and the   *)
(* orchestrating main().                                                   *)
(*                                                                         *)
(* JSON objects are functions from key strings to values (a key may be     *)
(* absent), JSON arrays are sequences, and every JSON scalar is the string *)
(* of its literal ("1", "1.0", "n/a").  Python floats are modelled by the  *)
(* integers the literals used here denote.                                 *)
(***************************************************************************)
EXTENDS Integers, Sequences, FiniteSets, TLC

VARIABLES
    pc,             \* position of main(): start, check, rank, fetch, save, done, aborted, crashed
    traders,        \* main: what fetch_leaderboard returned
    daily_top,      \* main: ranked list for window "day"
    weekly_top,     \* main: ranked list for window "week"
    all_addresses,  \* main: set of addresses of both lists
    positions_map,  \* main: address -> positions fetched for it
    requests,       \* log of the addresses posted to the positions endpoint, in order
    data_file,      \* contents of data.json: absent, stale or the snapshot written
    args,           \* arguments of a direct call of one function
    ret             \* outcome of that call

vars == <<pc, traders, daily_top, weekly_top, all_addresses, positions_map,
          requests, data_file, args, ret>>

main_vars == <<pc, traders, daily_top, weekly_top, all_addresses, positions_map,
               requests, data_file>>

-----------------------------------------------------------------------------
(* Bounds of the model *)

MaxTraders == 3

MaxN == 2

MaxRows == 2

MaxPos == 3

-----------------------------------------------------------------------------
(* Python primitives *)

\* the empty dict {}
EmptyObj == [k \in {} |-> ""]

\* Python's None
None == "None"

\* dict.get(key, default)
Get(obj, key, default) == IF key \in DOMAIN obj THEN obj[key] ELSE default

\* an outcome of a call: a returned value or a raised exception
Return(v) == [state |-> "returned", value |-> v]

Raise(e) == [state |-> "raised", value |-> e]

Pending == [state |-> "pending", value |-> ""]

\* the literals float() accepts; every other literal raises ValueError
Numeric == {"0", "0.0", "-0.0", "1", "1.0", "-1", "2", "-2", "3", "30", "100"}

\* float(x)
float(x) ==
    CASE x \in {"0", "0.0", "-0.0"} -> 0
      [] x \in {"1", "1.0"} -> 1
      [] x = "-1" -> -1
      [] x = "2" -> 2
      [] x = "-2" -> -2
      [] x = "3" -> 3
      [] x = "30" -> 30
      [] x = "100" -> 100

\* abs(x)
abs(x) == IF x < 0 THEN -x ELSE x

\* s[:n + 1]: the slice taken one entry too long
SliceToInclusive(s, n) ==
    SubSeq(s, 1, IF n + 1 < Len(s) THEN n + 1 ELSE Len(s))

\* s[:n]
SliceTo(s, n) ==
    IF n >= 0
    THEN SubSeq(s, 1, IF n < Len(s) THEN n ELSE Len(s))
    ELSE SubSeq(s, 1, IF Len(s) + n > 0 THEN Len(s) + n ELSE 0)

\* all sequences over S of length at most n
SeqUpTo(S, n) == UNION {[1..k -> S] : k \in 0..n}

-----------------------------------------------------------------------------
(* get_pnl_data *)

\* the dict built at the first matching entry; float() of each field in turn
PerfTriple(data) ==
    LET p == Get(data, "pnl", "0")
        r == Get(data, "roi", "0")
        v == Get(data, "vlm", "0")
    IN  IF p \in Numeric /\ r \in Numeric /\ v \in Numeric
        THEN Return([pnl |-> float(p), roi |-> float(r), volume |-> float(v)])
        ELSE Raise("ValueError")

RECURSIVE ScanPerformances(_, _, _)
\* the for loop over windowPerformances from entry i on
ScanPerformances(wp, i, period) ==
    IF i > Len(wp)
    THEN Return([pnl |-> 0, roi |-> 0, volume |-> 0])
    ELSE LET perf == wp[i]
         IN  IF Len(perf) < 1
             THEN Raise("IndexError")
             ELSE IF perf[1] = period
                  THEN IF Len(perf) < 2
                       THEN Raise("IndexError")
                       ELSE PerfTriple(perf[2])
                  ELSE ScanPerformances(wp, i + 1, period)

get_pnl_data(trader, period) ==
    ScanPerformances(Get(trader, "windowPerformances", <<>>), 1, period)

-----------------------------------------------------------------------------
(* process_traders *)

\* the dict appended for one surviving trader; row is the trader's position in
\* the input list (a history field, not part of the program's dict)
RankedEntry(trader, pnl_data, row) ==
    [address      |-> Get(trader, "ethAddress", ""),
     displayName  |-> Get(trader, "displayName", None),
     accountValue |-> float(Get(trader, "accountValue", "0")),
     pnl          |-> pnl_data.pnl,
     roi          |-> pnl_data.roi,
     volume       |-> pnl_data.volume,
     row          |-> row]

\* the filter testing the wrong field of the triple
SkipZeroRoi(pnl_data) == pnl_data.roi = 0

\* the filter of the loop: traders with zero PnL are skipped
SkipZero(pnl_data) == pnl_data.pnl = 0

RECURSIVE Collect(_, _, _, _)
\* the for loop over traders from position i on, processed being the list so far
Collect(trs, i, period, processed) ==
    IF i > Len(trs)
    THEN Return(processed)
    ELSE LET got == get_pnl_data(trs[i], period)
         IN  IF got.state = "raised"
             THEN got
             ELSE IF SkipZero(got.value)
                  THEN Collect(trs, i + 1, period, processed)
                  ELSE IF Get(trs[i], "accountValue", "0") \notin Numeric
                       THEN Raise("ValueError")
                       ELSE Collect(trs, i + 1, period,
                                    Append(processed, RankedEntry(trs[i], got.value, i)))

\* the sort without reverse=True: x goes after every entry whose pnl is at most x's
InsertAscending(sorted, x) ==
    LET k == Cardinality({j \in 1..Len(sorted) : sorted[j].pnl <= x.pnl})
    IN  SubSeq(sorted, 1, k) \o <<x>> \o SubSeq(sorted, k + 1, Len(sorted))

\* a descending sort that is not stable: x goes before the entries with its pnl
InsertBeforeEqual(sorted, x) ==
    LET k == Cardinality({j \in 1..Len(sorted) : sorted[j].pnl > x.pnl})
    IN  SubSeq(sorted, 1, k) \o <<x>> \o SubSeq(sorted, k + 1, Len(sorted))

\* where x goes in a list sorted by descending pnl: after every entry whose pnl
\* is at least x's, so that equal keys keep their order
InsertDescending(sorted, x) ==
    LET k == Cardinality({j \in 1..Len(sorted) : sorted[j].pnl >= x.pnl})
    IN  SubSeq(sorted, 1, k) \o <<x>> \o SubSeq(sorted, k + 1, Len(sorted))

RECURSIVE SortByPnl(_)
\* processed.sort(key=pnl, reverse=True): a stable sort, descending
SortByPnl(processed) ==
    IF processed = <<>>
    THEN <<>>
    ELSE InsertDescending(SortByPnl(SubSeq(processed, 1, Len(processed) - 1)),
                          processed[Len(processed)])

process_traders(trs, period, top_n) ==
    LET got == Collect(trs, 1, period, <<>>)
    IN  IF got.state = "raised"
        THEN got
        ELSE Return(SliceTo(SortByPnl(got.value), top_n))

-----------------------------------------------------------------------------
(* Inputs of the direct calls of process_traders *)

Periods == {"day", "week"}

Perf(p) == [pnl |-> p, roi |-> "2", vlm |-> "30"]

Row(a, wp) ==
    [ethAddress |-> a, displayName |-> "whale", accountValue |-> "100",
     windowPerformances |-> wp]

\* leaderboard rows: a day and a week entry each, and rows that lack an entry,
\* repeat a window, spell a number differently, carry a non-numeric pnl or a
\* week entry without its data object
RankRows ==
    {Row("0xa", << <<"day", Perf(d)>>, <<"week", Perf(w)>> >>) :
        d \in {"0", "-1", "1", "2"}, w \in {"0", "1"}}
    \cup {Row("0xb", <<>>),
          Row("0xb", << <<"week", Perf("-1")>> >>),
          Row("0xb", << <<"day", Perf("1.0")>>, <<"week", Perf("0.0")>> >>),
          Row("0xb", << <<"day", Perf("0")>>, <<"day", Perf("2")>> >>),
          Row("0xb", << <<"day", Perf("n/a")>>, <<"week", Perf("2")>> >>),
          Row("0xb", << <<"week">>, <<"day", Perf("1")>> >>)}

InitMain ==
    /\ pc = "start"
    /\ traders = <<>>
    /\ daily_top = <<>>
    /\ weekly_top = <<>>
    /\ all_addresses = {}
    /\ positions_map = EmptyObj
    /\ requests = <<>>

InitRank ==
    /\ InitMain
    /\ data_file = [state |-> "absent"]
    /\ args \in [traders : SeqUpTo(RankRows, MaxTraders),
                 period  : Periods,
                 top_n   : 0..MaxN]
    /\ ret = Pending

CallProcessTraders ==
    /\ ret.state = "pending"
    /\ ret' = process_traders(args.traders, args.period, args.top_n)
    /\ UNCHANGED <<main_vars, args>>

NextRank == CallProcessTraders

SpecRank == InitRank /\ [][NextRank]_vars

-----------------------------------------------------------------------------
(* Ranking claims, stated on a finished call of process_traders *)

RankReturned == ret.state = "returned"

\* positions of the entries of trader t for the window
WindowEntries(t, period) ==
    LET wp == Get(t, "windowPerformances", <<>>)
    IN  {j \in 1..Len(wp) : wp[j][1] = period}

\* the pnl the leaderboard reports for trader t in the window (its first entry
\* for the window), 0 when it has no entry for it
WindowPnl(t, period) ==
    LET wp == Get(t, "windowPerformances", <<>>)
        js == WindowEntries(t, period)
    IN  IF js = {}
        THEN 0
        ELSE float(Get(wp[CHOOSE j \in js : \A k \in js : j <= k][2], "pnl", "0"))

InputRows == 1..Len(args.traders)

ArgPnl(i) == WindowPnl(args.traders[i], args.period)

NonZeroRows == {i \in InputRows : ArgPnl(i) # 0}

InResult(i) == \E k \in 1..Len(ret.value) : ret.value[k].row = i

\* C1: the list process_traders returns has at most top_n entries and is
\* sorted by descending pnl: every entry's pnl is at least its successor's.
C1_LengthAndOrder ==
    RankReturned =>
        /\ Len(ret.value) <= args.top_n
        /\ \A k \in 1..(Len(ret.value) - 1) : ret.value[k].pnl >= ret.value[k + 1].pnl

\* a call that had to reorder and to truncate: three ranked candidates, two
\* kept, the kept ones not in leaderboard order
C1_Witness ==
    /\ RankReturned
    /\ Cardinality(NonZeroRows) > args.top_n
    /\ Len(ret.value) = 2
    /\ ret.value[1].pnl > ret.value[2].pnl
    /\ ret.value[1].row > ret.value[2].row

\* C2: a trader whose pnl for the requested window is 0, or that has no entry
\* for the window, is not in the returned list, whatever its other windows say.
C2_ZeroPnlExcluded ==
    RankReturned =>
        \A i \in InputRows :
            (WindowEntries(args.traders[i], args.period) = {} \/ ArgPnl(i) = 0)
                => ~InResult(i)

\* the weekly list has room left and still leaves out a trader with week pnl 0
\* and day pnl non-zero, and a trader with no week entry
C2_Witness ==
    /\ RankReturned
    /\ args.period = "week"
    /\ ret.value # <<>>
    /\ Len(ret.value) < args.top_n
    /\ \E i \in InputRows :
        /\ WindowEntries(args.traders[i], "week") # {}
        /\ ArgPnl(i) = 0
        /\ WindowPnl(args.traders[i], "day") # 0
        /\ ~InResult(i)
    /\ \E i \in InputRows :
        /\ WindowEntries(args.traders[i], "week") = {}
        /\ ~InResult(i)

\* the non-zero rows the returned list leaves out
Excluded == {i \in NonZeroRows : ~InResult(i)}

\* C3 as stated, the threshold read as the pnl of the Nth entry of the list
C3_ThresholdIsNth ==
    \A i \in NonZeroRows :
        InResult(i) <=>
            \/ Cardinality(NonZeroRows) < args.top_n
            \/ /\ args.top_n >= 1
               /\ Len(ret.value) >= args.top_n
               /\ ArgPnl(i) > ret.value[args.top_n].pnl

\* C3 as stated, the threshold read as the best pnl that was left out (no
\* threshold when nothing was left out)
C3_ThresholdIsBestExcluded ==
    \A i \in NonZeroRows :
        InResult(i) <=>
            \/ Excluded = {}
            \/ \A j \in Excluded : ArgPnl(i) > ArgPnl(j)

\* C3 (as stated): a trader with non-zero window pnl is in the list if and only
\* if the list has capacity or its pnl exceeds the inclusion threshold, under
\* either reading of the threshold.
C3_Original ==
    RankReturned => (C3_ThresholdIsNth \/ C3_ThresholdIsBestExcluded)

\* the rows that rank ahead of row i: a greater pnl, or the same pnl earlier in
\* the leaderboard
Ahead(i) ==
    {j \in NonZeroRows :
        ArgPnl(j) > ArgPnl(i) \/ (ArgPnl(j) = ArgPnl(i) /\ j < i)}

\* C3 (amended): a trader with non-zero window pnl is in the list if and only if
\* fewer than top_n non-zero rows rank ahead of it, a row ranking ahead when its
\* pnl is greater, or equal and earlier in the leaderboard.
C3_Amended ==
    RankReturned =>
        \A i \in NonZeroRows : InResult(i) <=> Cardinality(Ahead(i)) < args.top_n

\* a tie at the cut with a negative pnl in play: of two rows with the same pnl
\* one is kept and one is not
C3_Witness ==
    /\ RankReturned
    /\ \E i, j \in NonZeroRows :
        /\ ArgPnl(i) = ArgPnl(j)
        /\ InResult(i)
        /\ ~InResult(j)
    /\ \E i \in NonZeroRows : ArgPnl(i) < 0

\* C10: rows with equal pnl are in the list in leaderboard order, and of rows
\* tied at the cut the earliest in the leaderboard are the ones kept.
C10_StableTies ==
    RankReturned =>
        /\ \A a, b \in 1..Len(ret.value) :
            (a < b /\ ret.value[a].pnl = ret.value[b].pnl)
                => ret.value[a].row < ret.value[b].row
        /\ \A i, j \in NonZeroRows :
            (ArgPnl(i) = ArgPnl(j) /\ InResult(j) /\ ~InResult(i)) => j < i

\* three rows tie; the two kept are the first two of the leaderboard, in order
C10_Witness ==
    /\ RankReturned
    /\ args.top_n = 2
    /\ Cardinality(NonZeroRows) = 3
    /\ \A i, j \in NonZeroRows : ArgPnl(i) = ArgPnl(j)
    /\ Len(ret.value) = 2
    /\ ret.value[1].row < ret.value[2].row
    /\ \E i \in NonZeroRows : ~InResult(i) /\ i > ret.value[2].row

-----------------------------------------------------------------------------
(* fetch_positions *)

\* the dict appended for one open position
PositionEntry(pos, szi) ==
    LET leverage_data == Get(pos, "leverage", EmptyObj)
    IN  [coin           |-> Get(pos, "coin", ""),
         direction      |-> IF szi > 0 THEN "Long" ELSE "Short",
         size           |-> abs(szi),
         entryPx        |-> Get(pos, "entryPx", "0"),
         leverage       |-> Get(leverage_data, "value", "0"),
         leverageType   |-> Get(leverage_data, "type", "cross"),
         positionValue  |-> Get(pos, "positionValue", "0"),
         unrealizedPnl  |-> Get(pos, "unrealizedPnl", "0"),
         returnOnEquity |-> Get(pos, "returnOnEquity", "0"),
         liquidationPx  |-> Get(pos, "liquidationPx", "")]

\* a filter that keeps long positions only
KeepLongOnly(szi) == szi > 0

\* the filter of the loop: only non-zero positions are included
NonZero(szi) == szi # 0

RECURSIVE ParseAssetPositions(_, _, _)
\* the for loop over assetPositions from entry i on, positions being the list so far
ParseAssetPositions(aps, i, positions) ==
    IF i > Len(aps)
    THEN Return(positions)
    ELSE LET pos == Get(aps[i], "position", EmptyObj)
         IN  IF DOMAIN pos = {}
             THEN ParseAssetPositions(aps, i + 1, positions)
             ELSE IF Get(pos, "szi", "0") \notin Numeric
                  THEN Raise("ValueError")
                  ELSE LET szi == float(Get(pos, "szi", "0"))
                       IN  IF NonZero(szi)
                           THEN ParseAssetPositions(aps, i + 1,
                                    Append(positions, PositionEntry(pos, szi)))
                           ELSE ParseAssetPositions(aps, i + 1, positions)

\* the body of the try block, given the response the endpoint sent;
\* status names the exception of the request itself, "ok" when there is none
TryFetchPositions(response) ==
    IF response.status # "ok"
    THEN Raise(response.status)
    ELSE ParseAssetPositions(Get(response.body, "assetPositions", <<>>), 1, <<>>)

RECURSIVE ParsedBeforeError(_, _, _)
\* the positions collected until the loop raises or ends
ParsedBeforeError(aps, i, positions) ==
    IF i > Len(aps)
    THEN positions
    ELSE LET pos == Get(aps[i], "position", EmptyObj)
         IN  IF DOMAIN pos = {}
             THEN ParsedBeforeError(aps, i + 1, positions)
             ELSE IF Get(pos, "szi", "0") \notin Numeric
                  THEN positions
                  ELSE LET szi == float(Get(pos, "szi", "0"))
                       IN  IF szi # 0
                           THEN ParsedBeforeError(aps, i + 1,
                                    Append(positions, PositionEntry(pos, szi)))
                           ELSE ParsedBeforeError(aps, i + 1, positions)

\* an except clause that returns what was collected so far instead of []
fetch_positions_partial(address, response) ==
    IF response.status # "ok"
    THEN <<>>
    ELSE ParsedBeforeError(Get(response.body, "assetPositions", <<>>), 1, <<>>)

\* try: ... return positions / except Exception: return []
fetch_positions(address, response) ==
    LET got == TryFetchPositions(response)
    IN  IF got.state = "raised" THEN <<>> ELSE got.value

-----------------------------------------------------------------------------
(* Inputs of the direct calls of fetch_positions *)

Position(coin, szi) ==
    [coin |-> coin, szi |-> szi, entryPx |-> "100",
     leverage |-> [type |-> "isolated", value |-> "3"],
     positionValue |-> "100", unrealizedPnl |-> "1", returnOnEquity |-> "0.0",
     liquidationPx |-> "30"]

\* asset positions: long, short and flat ones, a non-numeric size, an empty and
\* a missing position object, and position objects with fields left out
AssetPositions ==
    {[position |-> Position("BTC", "1")],
     [position |-> Position("ETH", "-2")],
     [position |-> Position("SOL", "0")],
     [position |-> Position("SOL", "-0.0")],
     [position |-> Position("DOGE", "n/a")],
     [position |-> EmptyObj],
     [type |-> "oneWay"],
     [position |-> [coin |-> "ARB"]],
     [position |-> [szi |-> "-1"]]}

RequestErrors == {"ConnectionError", "HTTPError", "JSONDecodeError"}

OkResponse(body) == [status |-> "ok", body |-> body]

ErrorResponse(e) == [status |-> e, body |-> EmptyObj]

PositionResponses ==
    {ErrorResponse(e) : e \in RequestErrors}
    \cup {OkResponse(EmptyObj)}
    \cup {OkResponse([assetPositions |-> aps]) : aps \in SeqUpTo(AssetPositions, MaxPos)}

InitPositions ==
    /\ InitMain
    /\ data_file = [state |-> "absent"]
    /\ args \in [address : {"0xa"}, response : PositionResponses]
    /\ ret = Pending

CallFetchPositions ==
    /\ ret.state = "pending"
    /\ ret' = Return(fetch_positions(args.address, args.response))
    /\ UNCHANGED <<main_vars, args>>

NextPositions == CallFetchPositions

SpecPositions == InitPositions /\ [][NextPositions]_vars

-----------------------------------------------------------------------------
(* Position claims, stated on a finished call of fetch_positions *)

AssetList(response) == Get(response.body, "assetPositions", <<>>)

PositionOf(response, j) == Get(AssetList(response)[j], "position", EmptyObj)

\* the response arrived and every size in it is a number
ParsesCleanly(response) ==
    /\ response.status = "ok"
    /\ \A j \in 1..Len(AssetList(response)) :
        DOMAIN PositionOf(response, j) # {}
            => Get(PositionOf(response, j), "szi", "0") \in Numeric

SignedSize(response, j) == float(Get(PositionOf(response, j), "szi", "0"))

\* the asset positions with a non-empty position object and a non-zero size
OpenPositions(response) ==
    {j \in 1..Len(AssetList(response)) :
        DOMAIN PositionOf(response, j) # {} /\ SignedSize(response, j) # 0}

\* the k-th open position of the response
NthOpen(response, k) ==
    CHOOSE j \in OpenPositions(response) :
        Cardinality({q \in OpenPositions(response) : q <= j}) = k

\* positions lists the open positions of the response, one entry each, in
\* response order, with size |szi| > 0 and the direction of szi's sign
ListsOpenPositions(positions, response) ==
    /\ Len(positions) = Cardinality(OpenPositions(response))
    /\ \A k \in 1..Len(positions) :
        /\ k <= Cardinality(OpenPositions(response))
        /\ positions[k].coin = Get(PositionOf(response, NthOpen(response, k)), "coin", "")
        /\ positions[k].size > 0
        /\ positions[k].size = abs(SignedSize(response, NthOpen(response, k)))
        /\ (positions[k].direction = "Long")
                <=> (SignedSize(response, NthOpen(response, k)) > 0)
        /\ (positions[k].direction = "Short")
                <=> (SignedSize(response, NthOpen(response, k)) < 0)

\* C4: for a response that parses, fetch_positions returns one entry per asset
\* position with a non-empty position object and non-zero szi, in response
\* order; size is |szi| and positive, direction is Long exactly when szi > 0
\* and Short exactly when szi < 0.
C4_OpenPositionsOnly ==
    (ret.state = "returned" /\ ParsesCleanly(args.response))
        => ListsOpenPositions(ret.value, args.response)

\* a response with a flat, a short and a long position: the flat one is left
\* out, the short one comes back with a positive size
C4_Witness ==
    /\ ret.state = "returned"
    /\ ParsesCleanly(args.response)
    /\ Len(AssetList(args.response)) = 3
    /\ Len(ret.value) = 2
    /\ ret.value[1].direction = "Short"
    /\ ret.value[1].size = 2
    /\ ret.value[2].direction = "Long"

-----------------------------------------------------------------------------
(* fetch_leaderboard and main *)

TopN == 10

\* try: ... return data.get('leaderboardRows', []) / except Exception: return []
fetch_leaderboard(response) ==
    IF response.status # "ok"
    THEN <<>>
    ELSE Get(response.body, "leaderboardRows", <<>>)

\* a test that never sees an empty leaderboard
NeverEmpty(trs) == FALSE

\* if not traders: return
NotTraders(trs) == trs = <<>>

\* the addresses of the daily list alone
DailyAddresses(daily, weekly) == {daily[k].address : k \in 1..Len(daily)}

\* the set built from daily_top + weekly_top
AllAddresses(daily, weekly) ==
    {daily[k].address : k \in 1..Len(daily)}
        \cup {weekly[k].address : k \in 1..Len(weekly)}

\* positions_map[address] = positions
SetItem(map, key, value) ==
    [k \in DOMAIN map \cup {key} |-> IF k = key THEN value ELSE map[k]]

\* a lookup under a key the map never holds, so that the default is attached
AttachDefault(top, map) ==
    [k \in 1..Len(top) |->
        [f \in DOMAIN top[k] \cup {"positions"} |->
            IF f = "positions" THEN <<>> ELSE top[k][f]]]

\* for trader in top: trader['positions'] = positions_map.get(trader['address'], [])
AttachPositions(top, map) ==
    [k \in 1..Len(top) |->
        [f \in DOMAIN top[k] \cup {"positions"} |->
            IF f = "positions" THEN Get(map, top[k].address, <<>>) ELSE top[k][f]]]

\* the list as json.dump writes it: the program's keys, without the history field
Dumped(top) ==
    [k \in 1..Len(top) |-> [f \in DOMAIN top[k] \ {"row"} |-> top[k][f]]]

\* the output dict of main
Output(daily, weekly) ==
    [state |-> "written", daily |-> Dumped(daily), weekly |-> Dumped(weekly),
     lastUpdated |-> "utcnow"]

-----------------------------------------------------------------------------
(* Inputs of a run of main: what the two endpoints answer *)

Windows(d, w) == << <<"day", Perf(d)>>, <<"week", Perf(w)>> >>

\* leaderboard rows of two traders, and rows with fields missing, a
\* non-numeric pnl and a non-numeric accountValue
MainRows ==
    {Row(a, Windows(dw[1], dw[2])) :
        a \in {"0xa", "0xb"}, dw \in {<<"1", "0">>, <<"-1", "2">>, <<"0", "1">>, <<"0", "0">>}}
    \cup {[windowPerformances |-> Windows("2", "1")],
          Row("0xb", Windows("n/a", "1")),
          [ethAddress |-> "0xa", accountValue |-> "n/a",
           windowPerformances |-> Windows("0", "1")]}

LeaderboardResponses ==
    {ErrorResponse(e) : e \in RequestErrors}
    \cup {OkResponse(EmptyObj)}
    \cup {OkResponse([leaderboardRows |-> rows]) : rows \in SeqUpTo(MainRows, MaxRows)}

\* answers of the positions endpoint: a failed request, no positions, open
\* positions, and a size that fails to parse after an open position
ClearinghouseResponses ==
    {ErrorResponse("ConnectionError"),
     OkResponse([assetPositions |-> <<>>]),
     OkResponse([assetPositions |->
        <<[position |-> Position("BTC", "1")], [position |-> Position("SOL", "0")]>>]),
     OkResponse([assetPositions |->
        <<[position |-> Position("ETH", "-2")], [position |-> Position("DOGE", "n/a")]>>])}

Init ==
    /\ InitMain
    /\ data_file \in {[state |-> "absent"], [state |-> "stale"]}
    /\ args = [program |-> "main"]
    /\ ret = Pending

\* traders = fetch_leaderboard()
FetchLeaderboard ==
    /\ pc = "start"
    /\ \E response \in LeaderboardResponses :
        /\ traders' = fetch_leaderboard(response)
        /\ requests' = Append(requests, [url |-> "leaderboard", user |-> "",
                                         response |-> response])
    /\ pc' = "check"
    /\ UNCHANGED <<daily_top, weekly_top, all_addresses, positions_map, data_file,
                   args, ret>>

\* if not traders: print("Failed to fetch leaderboard"); return
Abort ==
    /\ pc = "check"
    /\ NotTraders(traders)
    /\ pc' = "aborted"
    /\ UNCHANGED <<traders, daily_top, weekly_top, all_addresses, positions_map,
                   requests, data_file, args, ret>>

\* daily_top, weekly_top = process_traders(...); all_addresses = set of both
RankTraders ==
    /\ pc = "check"
    /\ ~NotTraders(traders)
    /\ LET daily  == process_traders(traders, "day", TopN)
           weekly == process_traders(traders, "week", TopN)
       IN  /\ daily.state = "returned"
           /\ weekly.state = "returned"
           /\ daily_top' = daily.value
           /\ weekly_top' = weekly.value
           /\ all_addresses' = AllAddresses(daily.value, weekly.value)
    /\ pc' = "fetch"
    /\ UNCHANGED <<traders, positions_map, requests, data_file, args, ret>>

\* an exception of process_traders is caught nowhere: main ends with a traceback
UncaughtException ==
    /\ pc = "check"
    /\ ~NotTraders(traders)
    /\ \/ process_traders(traders, "day", TopN).state = "raised"
       \/ process_traders(traders, "week", TopN).state = "raised"
    /\ pc' = "crashed"
    /\ UNCHANGED <<traders, daily_top, weekly_top, all_addresses, positions_map,
                   requests, data_file, args, ret>>

\* one turn of the loop over all_addresses, in the set's iteration order
FetchPositions ==
    /\ pc = "fetch"
    /\ \E address \in all_addresses \ DOMAIN positions_map :
        \E response \in ClearinghouseResponses :
            /\ positions_map' =
                SetItem(positions_map, address, fetch_positions(address, response))
            /\ requests' = Append(requests, [url |-> "info", user |-> address,
                                             response |-> response])
    /\ UNCHANGED <<pc, traders, daily_top, weekly_top, all_addresses, data_file,
                   args, ret>>

\* after the loop: attach the positions to both lists, write data.json
AttachAndSave ==
    /\ pc = "fetch"
    /\ all_addresses \ DOMAIN positions_map = {}
    /\ daily_top' = AttachPositions(daily_top, positions_map)
    /\ weekly_top' = AttachPositions(weekly_top, positions_map)
    /\ data_file' = Output(daily_top', weekly_top')
    /\ pc' = "done"
    /\ UNCHANGED <<traders, all_addresses, positions_map, requests, args, ret>>

Next ==
    \/ FetchLeaderboard
    \/ Abort
    \/ RankTraders
    \/ UncaughtException
    \/ FetchPositions
    \/ AttachAndSave

Spec == Init /\ [][Next]_vars

-----------------------------------------------------------------------------
(* Claims about a run of main *)

Written == data_file.state = "written"

\* the exchanges with the positions endpoint, by position in the log
InfoRequests == {i \in 1..Len(requests) : requests[i].url = "info"}

\* the exchanges made for one address
RequestsFor(address) == {i \in InfoRequests : requests[i].user = address}

\* the leaderboard fetch failed or brought no rows
LeaderboardEmpty ==
    \/ requests[1].response.status # "ok"
    \/ Get(requests[1].response.body, "leaderboardRows", <<>>) = <<>>

\* C5: a failed or empty leaderboard fetch ends the run with the output file
\* untouched and no position fetch made; the file is written only after a
\* leaderboard fetch that returned a non-empty list.
C5_NoOutputWithoutLeaderboard ==
    /\ Written =>
        /\ requests # <<>>
        /\ requests[1].url = "leaderboard"
        /\ ~LeaderboardEmpty
    /\ (pc # "start" /\ LeaderboardEmpty) =>
        /\ pc \in {"check", "aborted"}
        /\ pc = "check" => ENABLED Abort
        /\ ~Written
        /\ InfoRequests = {}

\* the fetch failed with an HTTP error, the run is over, the old file is still there
C5_Witness ==
    /\ pc = "aborted"
    /\ requests[1].response.status = "HTTPError"
    /\ data_file.state = "stale"
    /\ InfoRequests = {}

\* the entries of the written snapshot, daily ones first
SnapshotEntries == data_file.daily \o data_file.weekly

\* C6: when position fetches fail, the run still completes and writes the
\* snapshot; an entry whose address failed has an empty positions list, every
\* other entry has the open positions its address's response lists.
C6_FailedFetchDegrades ==
    /\ (\E i \in InfoRequests : ~ParsesCleanly(requests[i].response)) =>
        /\ pc \in {"fetch", "done"}
        /\ pc = "fetch" => ENABLED (FetchPositions \/ AttachAndSave)
    /\ pc = "done" =>
        /\ Written
        /\ \A k \in 1..Len(SnapshotEntries) :
            \A i \in RequestsFor(SnapshotEntries[k].address) :
                IF ParsesCleanly(requests[i].response)
                THEN ListsOpenPositions(SnapshotEntries[k].positions,
                                        requests[i].response)
                ELSE SnapshotEntries[k].positions = <<>>

\* one address failed after an open position had been parsed, another was
\* fetched with an open position: the snapshot has [] for the first and the
\* position for the second
C6_Witness ==
    /\ pc = "done"
    /\ Written
    /\ \E a, b \in 1..Len(SnapshotEntries) :
        /\ SnapshotEntries[a].address # SnapshotEntries[b].address
        /\ SnapshotEntries[a].positions = <<>>
        /\ \E i \in RequestsFor(SnapshotEntries[a].address) :
            /\ requests[i].response.status = "ok"
            /\ ~ParsesCleanly(requests[i].response)
        /\ Len(SnapshotEntries[b].positions) = 1

\* C7 (as stated): whatever rows a non-empty leaderboard holds, extraction and
\* ranking raise nothing and the run ends by writing the snapshot: main never
\* ends in an uncaught exception.
C7_NothingPropagates == pc # "crashed"

\* the addresses that appear in the daily or in the weekly list
RankedAddresses ==
    {a \in {"", "0xa", "0xb"} :
        \/ \E k \in 1..Len(daily_top) : daily_top[k].address = a
        \/ \E k \in 1..Len(weekly_top) : weekly_top[k].address = a}

C8_Requests ==
    /\ \A i, j \in InfoRequests : requests[i].user = requests[j].user => i = j
    /\ \A i \in InfoRequests : requests[i].user \in RankedAddresses
    /\ Written => \A a \in RankedAddresses : Cardinality(RequestsFor(a)) = 1

C8_Order ==
    requests' # requests /\ requests'[Len(requests')].url = "info" =>
        /\ pc = "fetch"
        /\ ~Written
        /\ data_file' = data_file
        /\ daily_top' = daily_top
        /\ weekly_top' = weekly_top

\* C8: every address of the two ranked lists is posted to the positions
\* endpoint exactly once, no other address is, and every such request is made
\* after both rankings and before the output file is written.
C8_FetchOncePerAddress == [](C8_Requests) /\ [][C8_Order]_vars

\* a finished run in which one address is in both lists, one fetch failed, and
\* two addresses were fetched with two requests
C8_Witness ==
    /\ pc = "done"
    /\ \E a \in 1..Len(daily_top) : \E b \in 1..Len(weekly_top) :
        daily_top[a].address = weekly_top[b].address
    /\ Cardinality(RankedAddresses) = 2
    /\ Cardinality(InfoRequests) = 2
    /\ \E i \in InfoRequests : requests[i].response.status # "ok"

\* C9: in the written snapshot every entry of both lists has a positions field
\* holding the result of the one fetch made for its address, so entries with
\* the same address have the same positions.
C9_PositionsAttached ==
    Written =>
        /\ \A k \in 1..Len(SnapshotEntries) :
            /\ "positions" \in DOMAIN SnapshotEntries[k]
            /\ SnapshotEntries[k].address \in DOMAIN positions_map
            /\ Cardinality(RequestsFor(SnapshotEntries[k].address)) = 1
            /\ \A i \in RequestsFor(SnapshotEntries[k].address) :
                SnapshotEntries[k].positions =
                    fetch_positions(requests[i].user, requests[i].response)
        /\ \A a, b \in 1..Len(SnapshotEntries) :
            SnapshotEntries[a].address = SnapshotEntries[b].address
                => SnapshotEntries[a].positions = SnapshotEntries[b].positions

\* an address is in the daily and in the weekly list and both entries carry
\* its open position; another address carries none
C9_Witness ==
    /\ Written
    /\ \E a \in 1..Len(data_file.daily) : \E b \in 1..Len(data_file.weekly) :
        /\ data_file.daily[a].address = data_file.weekly[b].address
        /\ data_file.daily[a].positions # <<>>
        /\ data_file.weekly[b].positions = data_file.daily[a].positions
    /\ \E k \in 1..Len(SnapshotEntries) : SnapshotEntries[k].positions = <<>>

====
